---- MODULE Spec2Model ----
(***************************************************************************)
(* The crawler / extractor / store triple of the agent scraper:            *)
(*   storage.AgentStore    (src/utils/storage/agent_store.go)              *)
(*   models.Agent          (src/unnamed/part_006)                          *)
(*   webscraper.VirtualsScraper, latest variant (src/unnamed/part_004)     *)
(*                                                                         *)
(* Text is a TLA+ string, except Description, which is a sequence of       *)
(* one-character strings because UpdateStatus searches inside it.          *)
(* A time.Time is [t, mono]: t the wall-clock instant in hours, mono       *)
(* whether the value carries a monotonic reading (time.Now() does, a value *)
(* decoded from JSON does not; reflect.DeepEqual sees the difference).     *)
(***************************************************************************)
EXTENDS Integers, Sequences, FiniteSets, TLC

VARIABLES
    clock,       \* the wall clock, in hours
    fetchCache,  \* AgentStore.fetchCache: scan id -> time.Time
    agentFiles,  \* <BaseDir>/agents/<id>.json: id -> file
    indexFile,   \* <BaseDir>/agent_index.json
    indexMutex,  \* AgentStore.indexMutex
    scheduler,   \* the cron scheduler of the scraper: "running" | "stopped"
    sweeps,      \* the ScrapeAgents goroutines started by the scheduler
    writer,      \* a goroutine calling UpdateIndex
    readers,     \* goroutines calling GetIndex
    call,        \* the last completed store call: arguments and results
    marked       \* scan id -> hour of its latest MarkFetched, -1 if none

vars == <<clock, fetchCache, agentFiles, indexFile, indexMutex, scheduler,
          sweeps, writer, readers, call, marked>>

----------------------------------------------------------------------------
(* Bounds of the model *)

MaxHours == 26
MaxClock == 25
MaxStoreClock == 1
MaxUpdateCount == 2
MaxIndexLen == 2
MaxAgentID == 2
NumReaders == 2

(* Program constants *)

startAgentID == 1
TTL == 24

----------------------------------------------------------------------------
(* time.Time *)

Now == [t |-> clock, mono |-> TRUE]
ZeroTime == [t |-> 0, mono |-> FALSE]
Since(x) == clock - x.t
MarshalTime(x) == x.t
UnmarshalTime(n) == [t |-> n, mono |-> FALSE]

----------------------------------------------------------------------------
(* strings.ToLower and strings.Contains on sequences of characters *)

UpperCase == <<"A","B","C","D","E","F","G","H","I","J","K","L","M",
               "N","O","P","Q","R","S","T","U","V","W","X","Y","Z">>
LowerCase == <<"a","b","c","d","e","f","g","h","i","j","k","l","m",
               "n","o","p","q","r","s","t","u","v","w","x","y","z">>

UpperToLower ==
    [c \in {UpperCase[i] : i \in 1..Len(UpperCase)} |->
        LowerCase[CHOOSE i \in 1..Len(UpperCase) : UpperCase[i] = c]]

ToLowerChar(c) == IF c \in DOMAIN UpperToLower THEN UpperToLower[c] ELSE c

ToLower(s) == [i \in 1..Len(s) |-> ToLowerChar(s[i])]

Contains(s, sub) ==
    \E i \in 0..(Len(s) - Len(sub)) : SubSeq(s, i + 1, i + Len(sub)) = sub

Inactive == <<"i","n","a","c","t","i","v","e">>
Discontinued == <<"d","i","s","c","o","n","t","i","n","u","e","d">>

----------------------------------------------------------------------------
(* models.Agent *)

StatusDefault == "default"
StatusActive == "active"
StatusDead == "dead"
StatusLatent == "latent"

ZeroInfluenceMetrics ==
    [Mindshare |-> "", Impressions |-> "", Engagement |-> "", Followers |-> "",
     SmartFollowers |-> "", TopTweets |-> ""]

ZeroTokenData ==
    [MCFDV |-> "", Change24h |-> "", TVL |-> "", Holders |-> "",
     Volume24h |-> "", Inferences |-> ""]

NewAgent(name, price, desc) ==
    [ID |-> "", Name |-> name, Description |-> desc, Stats |-> "",
     Price |-> price, ScrapedAt |-> ZeroTime, Status |-> "",
     LastChecked |-> ZeroTime, UpdateCount |-> 0,
     InfluenceMetrics |-> ZeroInfluenceMetrics, TokenData |-> ZeroTokenData,
     LastError |-> "", ParseSuccess |-> FALSE, RetryCount |-> 0]

Sha256Hex8(s) == "#" \o s

PreHash(a) == a.Name \o "-" \o a.Price

GenerateID_HashesStats(a) == [a EXCEPT !.ID = Sha256Hex8(PreHash(a) \o a.Stats)]

GenerateID(a) == [a EXCEPT !.ID = Sha256Hex8(PreHash(a))]

UpdateStatus_DefaultFirst(a) ==
    [a EXCEPT !.Status =
        IF a.UpdateCount = 0 THEN StatusDefault
        ELSE IF a.Price = "" /\ a.Description = <<>> THEN StatusDead
        ELSE IF \/ Contains(ToLower(a.Description), Inactive)
                \/ Contains(ToLower(a.Description), Discontinued)
             THEN StatusLatent
        ELSE StatusActive]

UpdateStatus(a) ==
    [a EXCEPT !.Status =
        IF a.Price = "" /\ a.Description = <<>> THEN StatusDead
        ELSE IF a.UpdateCount = 0 THEN StatusDefault
        ELSE IF \/ Contains(ToLower(a.Description), Inactive)
                \/ Contains(ToLower(a.Description), Discontinued)
             THEN StatusLatent
        ELSE StatusActive]

ToSummary(a) == [ID |-> a.ID, Name |-> a.Name, Price |-> a.Price]

----------------------------------------------------------------------------
(* encoding/json of an Agent and of an AgentIndex; a file on disk *)

MarshalAgent(a) ==
    [a EXCEPT !.ScrapedAt = MarshalTime(a.ScrapedAt),
              !.LastChecked = MarshalTime(a.LastChecked)]

UnmarshalAgent(d) ==
    [d EXCEPT !.ScrapedAt = UnmarshalTime(d.ScrapedAt),
              !.LastChecked = UnmarshalTime(d.LastChecked)]

MarshalIndex(ix) ==
    [LastUpdated |-> MarshalTime(ix.LastUpdated), Agents |-> ix.Agents]

UnmarshalIndex(d) ==
    [LastUpdated |-> UnmarshalTime(d.LastUpdated), Agents |-> d.Agents]

\* A file holds the complete document written last ("json"), or what an
\* interrupted write left of it ("partial": its bytes are no JSON document).
NoFile == [kind |-> "absent"]
JsonFile(doc) == [kind |-> "json", doc |-> doc]
PartialFile == [kind |-> "partial"]

----------------------------------------------------------------------------
(* os.WriteFile: open with O_CREATE|O_TRUNC, write, close.  io is what    *)
(* the file system does: "ok", "open" (the open fails, nothing changes),  *)
(* "write" (the open truncated the file, the write fails).                *)

WriteOutcomes == {"ok", "open", "write"}

OpenTrunc(old, io) == IF io = "open" THEN old ELSE PartialFile

WriteFile(old, doc, io) ==
    IF io = "ok" THEN JsonFile(doc) ELSE OpenTrunc(old, io)

PutKey_DropsOtherKeys(f, k, v) == [x \in {k} |-> v]

PutKey(f, k, v) == [x \in DOMAIN f \cup {k} |-> IF x = k THEN v ELSE f[x]]

Empty == [x \in {} |-> NoFile]

----------------------------------------------------------------------------
(* storage.AgentStore *)

ShouldFetch_AtLeastTTL(agentID) ==
    \/ agentID \notin DOMAIN fetchCache
    \/ Since(fetchCache[agentID]) >= TTL

ShouldFetch(agentID) ==
    \/ agentID \notin DOMAIN fetchCache
    \/ Since(fetchCache[agentID]) > TTL

MarkFetched(agentID) == PutKey(fetchCache, agentID, Now)

GetAgent(id) ==
    IF id \notin DOMAIN agentFiles THEN [err |-> "read"]
    ELSE IF agentFiles[id].kind # "json" THEN [err |-> "unmarshal"]
    ELSE [err |-> "nil", agent |-> UnmarshalAgent(agentFiles[id].doc)]

SaveAgentStamp_StatusBeforeCount(agent) ==
    LET a1 == UpdateStatus([agent EXCEPT !.LastChecked = Now])
        a2 == [a1 EXCEPT !.UpdateCount = @ + 1]
    IN  IF a2.ID = "" THEN GenerateID(a2) ELSE a2

\* Lines 56-62: the caller's struct is stamped before anything is read.
SaveAgentStamp(agent) ==
    LET a1 == [agent EXCEPT !.LastChecked = Now, !.UpdateCount = @ + 1]
        a2 == UpdateStatus(a1)
    IN  IF a2.ID = "" THEN GenerateID(a2) ELSE a2

\* Line 72: reflect.DeepEqual(existing, agent), field by field, the
\* representation of the two time.Time fields included.
DeepEqual(x, y) == x = y

SaveAgentCount_KeepsCallerCount(existing, a) == a.UpdateCount

\* Lines 67-77: the count the record is written with.
SaveAgentCount(existing, a) == existing.UpdateCount + 1

SaveIO == WriteOutcomes \cup {"mkdir"}

\* Lines 75-88: the record is written in place, under its ID.
SaveAgentWrite(a, found, existing, io) ==
    LET b == IF found
             THEN [a EXCEPT !.UpdateCount = SaveAgentCount(existing.agent, a)]
             ELSE a
        old == IF a.ID \in DOMAIN agentFiles THEN agentFiles[a.ID] ELSE NoFile
    IN  IF io = "mkdir"
        THEN [err |-> "mkdir", agent |-> b, files |-> agentFiles, wrote |-> FALSE]
        ELSE [err |-> IF io = "ok" THEN "nil" ELSE "write",
              agent |-> b,
              files |-> IF io = "open" THEN agentFiles
                        ELSE PutKey(agentFiles, a.ID, WriteFile(old, MarshalAgent(b), io)),
              wrote |-> io = "ok"]

\* The whole of SaveAgent: [err, agent, files, wrote], agent being the
\* caller's struct as the call leaves it.
SaveAgent(agent, io) ==
    LET a == CHOOSE x \in {SaveAgentStamp(agent)} : TRUE
        existing == GetAgent(a.ID)
        found == a.ID \in DOMAIN agentFiles /\ existing.err = "nil"
    IN  IF found /\ DeepEqual(existing.agent, a)
        THEN [err |-> "nil", agent |-> a, files |-> agentFiles, wrote |-> FALSE]
        ELSE SaveAgentWrite(a, found, existing, io)

BuildIndex_SkipsRepeatedIDs(agents) ==
    [LastUpdated |-> Now,
     Agents |->
        LET first == SelectSeq([i \in 1..Len(agents) |-> i],
                        LAMBDA j : \A k \in 1..(j - 1) : agents[k].ID # agents[j].ID)
        IN  [i \in 1..Len(first) |-> ToSummary(agents[first[i]])]]

\* UpdateIndex, lines 107-118.
BuildIndex(agents) ==
    [LastUpdated |-> Now,
     Agents |-> [i \in 1..Len(agents) |-> ToSummary(agents[i])]]

\* UpdateIndex as one step (it holds indexMutex from start to end).
UpdateIndex(agents, io) ==
    [err |-> IF io = "ok" THEN "nil" ELSE "write",
     file |-> WriteFile(indexFile, MarshalIndex(BuildIndex(agents)), io)]

ReadIndex_EmptyWhenAbsent(file) ==
    IF file.kind = "absent"
    THEN [err |-> "nil", index |-> [LastUpdated |-> ZeroTime, Agents |-> <<>>]]
    ELSE IF file.kind # "json" THEN [err |-> "unmarshal"]
    ELSE [err |-> "nil", index |-> UnmarshalIndex(file.doc)]

\* GetIndex, lines 150-161, on the file it finds.
ReadIndex(file) ==
    IF file.kind = "absent" THEN [err |-> "read"]
    ELSE IF file.kind # "json" THEN [err |-> "unmarshal"]
    ELSE [err |-> "nil", index |-> UnmarshalIndex(file.doc)]

GetIndex == ReadIndex(indexFile)

\* APIServer.handleGetAgent: the status and the body of the response.
HandleGetAgent(id) ==
    IF GetAgent(id).err # "nil"
    THEN [status |-> 404, body |-> "Agent not found"]
    ELSE [status |-> 200, body |-> GetAgent(id).agent]

----------------------------------------------------------------------------
(* The clock moves on by d hours, up to max. *)

AdvanceClock(d, max) ==
    /\ clock + d <= max
    /\ clock' = clock + d

NoCall == [op |-> "none"]

----------------------------------------------------------------------------
(* SpecStore: callers of SaveAgent on one store.                           *)

StoreNames == {"a"}
StorePrices == {"", "1"}
StoreDescriptions == {<<>>, <<"I","n","A","c","t","i","v","e">>}
StoreIDs == {"", Sha256Hex8("a-")}
StoreCounts == {0, 1}

\* What a caller may pass: an entity with no ID yet, or one that carries
\* the ID derived from an earlier (Name, Price).
StoreInputs ==
    {[NewAgent(n, p, d) EXCEPT !.ID = i, !.UpdateCount = c] :
        n \in StoreNames, p \in StorePrices, d \in StoreDescriptions,
        i \in StoreIDs, c \in StoreCounts}

\* Equal but for the timestamps, the update count and the derived status.
SameContent(x, y) ==
    /\ x.ID = y.ID
    /\ x.Name = y.Name
    /\ x.Price = y.Price
    /\ x.Description = y.Description
    /\ x.ParseSuccess = y.ParseSuccess

\* The highest UpdateCount stored under the ID of this call over the
\* SaveAgent calls for that ID that were made one after another, this call
\* included: prev is the last call, pre the record found, r the result.
HighestCount(prev, pre, r) ==
    LET before == IF prev.op = "SaveAgent" /\ prev.id = r.agent.ID THEN prev.high
                  ELSE IF pre.err = "nil" THEN pre.agent.UpdateCount
                  ELSE 0
    IN  IF r.wrote /\ r.agent.UpdateCount > before THEN r.agent.UpdateCount
        ELSE before

StoreSaveAgent ==
    \E agent \in StoreInputs, io \in SaveIO :
        \E r \in {SaveAgent(agent, io)}, pre \in {GetAgent(SaveAgentStamp(agent).ID)} :
            /\ r.wrote => r.agent.UpdateCount <= MaxUpdateCount
            /\ agentFiles' = r.files
            /\ call' = [op |-> "SaveAgent", id |-> r.agent.ID, err |-> r.err,
                        wrote |-> r.wrote,
                        argCount |-> agent.UpdateCount,
                        outCount |-> r.agent.UpdateCount,
                        preErr |-> pre.err,
                        preCount |-> IF pre.err = "nil" THEN pre.agent.UpdateCount ELSE 0,
                        high |-> HighestCount(call, pre, r),
                        same |-> pre.err = "nil" /\ SameContent(pre.agent, r.agent)]
            /\ UNCHANGED <<clock, fetchCache, indexFile, indexMutex, scheduler,
                           sweeps, writer, readers, marked>>

StoreTick ==
    /\ AdvanceClock(1, MaxStoreClock)
    /\ UNCHANGED <<fetchCache, agentFiles, indexFile, indexMutex, scheduler,
                   sweeps, writer, readers, call, marked>>

StoreInit ==
    /\ clock = 0
    /\ fetchCache = Empty
    /\ agentFiles = Empty
    /\ indexFile = NoFile
    /\ indexMutex = [w |-> FALSE, r |-> 0]
    /\ scheduler = "running"
    /\ sweeps = <<>>
    /\ writer = [pc |-> "idle"]
    /\ readers = <<>>
    /\ call = NoCall
    /\ marked = <<>>

StoreNext == StoreSaveAgent \/ StoreTick

SpecStore == StoreInit /\ [][StoreNext]_vars

----------------------------------------------------------------------------
(* SpecIndex: one goroutine calling UpdateIndex again and again, and       *)
(* NumReaders goroutines calling GetIndex, step by step.                   *)
(* sync.RWMutex: Lock waits for the writer and every reader to be gone,    *)
(* RLock for the writer to be gone.                                        *)

LockFree(m) == ~m.w /\ m.r = 0
RLockFree(m) == ~m.w

Readers == 1..NumReaders

IndexEntities ==
    {GenerateID(NewAgent("a", "1", <<>>)), GenerateID(NewAgent("b", "", <<>>))}

IndexInputs ==
    UNION {[1..n -> IndexEntities] : n \in 0..MaxIndexLen}

IdleReader == [pc |-> "idle", res |-> [err |-> "none"], inFlight |-> FALSE]

\* UpdateIndex, lines 104-120: take the lock, build and encode the index.
WriterLock ==
    \E agents \in IndexInputs :
        /\ writer.pc \in {"idle", "returned"}
        /\ LockFree(indexMutex)
        /\ indexMutex' = [indexMutex EXCEPT !.w = TRUE]
        /\ writer' = [pc |-> "open", agents |-> agents,
                      data |-> MarshalIndex(BuildIndex(agents)),
                      err |-> "none", prev |-> ReadIndex(indexFile)]
        /\ UNCHANGED <<clock, fetchCache, agentFiles, indexFile, scheduler,
                       sweeps, readers, call, marked>>

\* os.WriteFile, line 126: the open, which truncates the file.
WriterOpen ==
    \E io \in {"ok", "open"} :
        /\ writer.pc = "open"
        /\ indexFile' = OpenTrunc(indexFile, io)
        /\ writer' = IF io = "open"
                     THEN [writer EXCEPT !.pc = "unlock", !.err = "write"]
                     ELSE [writer EXCEPT !.pc = "write"]
        /\ UNCHANGED <<clock, fetchCache, agentFiles, indexMutex, scheduler,
                       sweeps, readers, call, marked>>

\* os.WriteFile, line 126: the write and the close.
WriterWrite ==
    \E io \in {"ok", "write"} :
        /\ writer.pc = "write"
        /\ indexFile' = WriteFile(indexFile, writer.data, io)
        /\ writer' = [writer EXCEPT !.pc = "unlock",
                                    !.err = IF io = "ok" THEN "nil" ELSE "write"]
        /\ UNCHANGED <<clock, fetchCache, agentFiles, indexMutex, scheduler,
                       sweeps, readers, call, marked>>

\* The deferred Unlock, line 105, and the return.
WriterUnlock ==
    /\ writer.pc = "unlock"
    /\ indexMutex' = [indexMutex EXCEPT !.w = FALSE]
    /\ writer' = [writer EXCEPT !.pc = "returned"]
    /\ UNCHANGED <<clock, fetchCache, agentFiles, indexFile, scheduler,
                   sweeps, readers, call, marked>>

\* GetIndex, line 147.
ReaderRLock(r) ==
    /\ readers[r].pc = "idle"
    /\ RLockFree(indexMutex)
    /\ indexMutex' = [indexMutex EXCEPT !.r = @ + 1]
    /\ readers' = [readers EXCEPT ![r].pc = "read"]
    /\ UNCHANGED <<clock, fetchCache, agentFiles, indexFile, scheduler,
                   sweeps, writer, call, marked>>

\* GetIndex, lines 150-159: read the file and decode it.  inFlight records
\* that the file was read while an UpdateIndex had it open for writing.
ReaderRead(r) ==
    /\ readers[r].pc = "read"
    /\ readers' = [readers EXCEPT ![r] =
                      [pc |-> "unlock", res |-> ReadIndex(indexFile),
                       inFlight |-> writer.pc = "write"]]
    /\ UNCHANGED <<clock, fetchCache, agentFiles, indexFile, indexMutex,
                   scheduler, sweeps, writer, call, marked>>

\* The deferred RUnlock, line 148, and the return of res.
ReaderRUnlock(r) ==
    /\ readers[r].pc = "unlock"
    /\ indexMutex' = [indexMutex EXCEPT !.r = @ - 1]
    /\ readers' = [readers EXCEPT ![r] = IdleReader]
    /\ UNCHANGED <<clock, fetchCache, agentFiles, indexFile, scheduler,
                   sweeps, writer, call, marked>>

IndexTick ==
    /\ AdvanceClock(1, MaxStoreClock)
    /\ UNCHANGED <<fetchCache, agentFiles, indexFile, indexMutex, scheduler,
                   sweeps, writer, readers, call, marked>>

IndexInit ==
    /\ clock = 0
    /\ fetchCache = Empty
    /\ agentFiles = Empty
    /\ indexFile = NoFile
    /\ indexMutex = [w |-> FALSE, r |-> 0]
    /\ scheduler = "running"
    /\ sweeps = <<>>
    /\ writer = [pc |-> "idle"]
    /\ readers = [r \in Readers |-> IdleReader]
    /\ call = NoCall
    /\ marked = <<>>

IndexNext ==
    \/ WriterLock
    \/ WriterOpen
    \/ WriterWrite
    \/ WriterUnlock
    \/ \E r \in Readers : ReaderRLock(r)
    \/ \E r \in Readers : ReaderRead(r)
    \/ \E r \in Readers : ReaderRUnlock(r)
    \/ IndexTick

SpecIndex == IndexInit /\ [][IndexNext]_vars

----------------------------------------------------------------------------
(* SpecBatch: callers of SaveAgents on one store, one call after another.  *)
(* call is the frame of the call: the slice it was passed, the position of *)
(* its loop, and what it returns.                                          *)

\* What a caller passes: entities parsed from a page (no ID yet) before and
\* after a change of price, and one that carries the ID of the old price.
BatchEntities ==
    {x \in StoreInputs :
        /\ x.Description = <<>>
        /\ x.UpdateCount = 0
        /\ x.ID # "" => x.Price = "1"}

BatchInputs ==
    UNION {[1..n -> BatchEntities] : n \in 0..MaxIndexLen}

IdleBatch ==
    [op |-> "SaveAgents", pc |-> "idle", agents |-> <<>>, i |-> 1,
     failed |-> FALSE, err |-> "none"]

\* SaveAgents, line 92: the call, with the slice it is passed.
BatchCall ==
    \E agents \in BatchInputs :
        /\ call.pc \in {"idle", "returned"}
        /\ call' = [IdleBatch EXCEPT !.pc = "loop", !.agents = agents]
        /\ UNCHANGED <<clock, fetchCache, agentFiles, indexFile, indexMutex,
                       scheduler, sweeps, writer, readers, marked>>

AfterSaveAgent_ReturnsOnError(c, err) ==
    [c EXCEPT !.i = IF err # "nil" THEN Len(c.agents) + 1 ELSE @ + 1,
              !.failed = @ \/ err # "nil"]

\* Lines 94-97: the error of SaveAgent is logged and the loop goes on.
AfterSaveAgent(c, err) ==
    [c EXCEPT !.i = @ + 1, !.failed = @ \/ err # "nil"]

\* Lines 93-98: one turn of the loop.  SaveAgent is given the address of
\* the loop variable, a copy of the element; its error is logged.
BatchSaveAgent ==
    /\ call.pc = "loop"
    /\ call.i <= Len(call.agents)
    /\ \E io \in SaveIO :
        \E r \in {SaveAgent(call.agents[call.i], io)} :
            /\ r.wrote => r.agent.UpdateCount <= MaxUpdateCount
            /\ agentFiles' = r.files
            /\ call' = AfterSaveAgent(call, r.err)
    /\ UNCHANGED <<clock, fetchCache, indexFile, indexMutex, scheduler,
                   sweeps, writer, readers, marked>>

\* Line 99: UpdateIndex on the slice as it was passed, and the return.
BatchUpdateIndex ==
    \E io \in WriteOutcomes :
        \E r \in {UpdateIndex(call.agents, io)} :
            /\ call.pc = "loop"
            /\ call.i > Len(call.agents)
            /\ LockFree(indexMutex)
            /\ indexFile' = r.file
            /\ call' = [call EXCEPT !.pc = "returned", !.err = r.err,
                                    !.failed = @ \/ r.err # "nil"]
            /\ UNCHANGED <<clock, fetchCache, agentFiles, indexMutex, scheduler,
                           sweeps, writer, readers, marked>>

BatchInit ==
    /\ clock = 0
    /\ fetchCache = Empty
    /\ agentFiles = Empty
    /\ indexFile = NoFile
    /\ indexMutex = [w |-> FALSE, r |-> 0]
    /\ scheduler = "running"
    /\ sweeps = <<>>
    /\ writer = [pc |-> "idle"]
    /\ readers = <<>>
    /\ call = IdleBatch
    /\ marked = <<>>

BatchNext == BatchCall \/ BatchSaveAgent \/ BatchUpdateIndex

SpecBatch == BatchInit /\ [][BatchNext]_vars

----------------------------------------------------------------------------
(* Spec: the scraper.  The cron scheduler starts a goroutine running       *)
(* ScrapeAgents at every tick; sweeps holds the ones that may be running.  *)
(* A scan id is the integer id; the cache key Sprintf("%d", id) is         *)
(* one-to-one with it.                                                     *)

\* Two goroutines are enough for one sweep to overlap another.
Slots == {1, 2}
ScanIDs == startAgentID..MaxAgentID

\* The site: /virtuals/<id> shows the agent named AgentNames[id], or a page
\* in which no name selector matches.
AgentNames == <<"a", "b", "c", "d", "e">>

WebPages(id) ==
    {[name |-> AgentNames[id], price |-> "1", description |-> <<>>],
     [name |-> "", price |-> "1", description |-> <<"x">>]}

FetchOutcomes == {"ok", "error", "timeout"}

ParseAgentPage_AcceptsNameless(page) ==
    [err |-> "nil",
     agent |-> UpdateStatus(GenerateID(
            [NewAgent(page.name, page.price, page.description)
                EXCEPT !.ScrapedAt = Now, !.ParseSuccess = TRUE]))]

ParseAgentPage_KeepsEmptyID(page) ==
    IF page.name = ""
    THEN [err |-> "noname"]
    ELSE [err |-> "nil",
          agent |-> UpdateStatus(
                [NewAgent(page.name, page.price, page.description)
                    EXCEPT !.ScrapedAt = Now, !.ParseSuccess = TRUE])]

\* parseAgentPage, lines 307-355, on the text the selectors extracted.
ParseAgentPage(page) ==
    IF page.name = ""
    THEN [err |-> "noname"]
    ELSE [err |-> "nil",
          agent |-> UpdateStatus(GenerateID(
                [NewAgent(page.name, page.price, page.description)
                    EXCEPT !.ScrapedAt = Now, !.ParseSuccess = TRUE]))]

IdleSweep ==
    [pc |-> "idle", err |-> "none", id |-> startAgentID, agents |-> <<>>,
     successCount |-> 0, errorCount |-> 0, indexErr |-> "none",
     startedEmpty |-> FALSE,
     skipped |-> {}, fetchFailed |-> {}, parseFailed |-> {}]

\* ScrapeAgents, lines 75-96, started by the cron entry of lines 59-63.
\* When the raw data directory cannot be made it returns at once.
StartedSweep(mk) ==
    IF mk # "ok" THEN IdleSweep
    ELSE [IdleSweep EXCEPT !.pc = "loop", !.err = "nil",
                           !.startedEmpty = DOMAIN fetchCache = {}]

\* Lines 80-87: the log file is opened; when that fails the sweep logs to
\* the console only.
LogOutcomes == {"ok", "open"}

ScrapeAgentsReturns_IndexError(mk, indexErr) ==
    IF mk # "ok" THEN "mkdir"
    ELSE IF indexErr = "write" THEN "write"
    ELSE "nil"

\* Lines 90-92 and 157: what ScrapeAgents returns; indexErr is what
\* UpdateIndex returned, "none" when it was not called.
ScrapeAgentsReturns(mk, indexErr) ==
    IF mk # "ok" THEN "mkdir" ELSE "nil"

\* The scheduler runs the job whether or not an earlier run has returned.
CronMayStart(s) == sweeps[s].pc = "idle"

SchedulerRuns_AfterStop(st) == st \in {"running", "stopped"}

\* cron.Cron: entries are run from Start until Stop.
SchedulerRuns(st) == st = "running"

\* The scheduler starts the job in slot s: all but the record of the call.
CronStart(s, log, mk) ==
    /\ SchedulerRuns(scheduler)
    /\ CronMayStart(s)
    /\ \A q \in Slots : q < s => sweeps[q].pc # "idle"
    /\ sweeps' = [sweeps EXCEPT ![s] = StartedSweep(mk)]
    /\ UNCHANGED <<clock, fetchCache, agentFiles, indexFile, indexMutex,
                   scheduler, writer, readers, marked>>

CronTick(s) ==
    \E log \in LogOutcomes, mk \in {"ok", "mkdir"} :
        /\ CronStart(s, log, mk)
        /\ UNCHANGED call

\* Lines 99-106: the throttle check.
SweepCheck(s) ==
    LET w == sweeps[s] IN
    /\ w.pc = "loop"
    /\ w.id <= MaxAgentID
    /\ sweeps' = [sweeps EXCEPT ![s] =
            IF ShouldFetch(w.id)
            THEN [w EXCEPT !.pc = "fetch"]
            ELSE [w EXCEPT !.id = @ + 1, !.skipped = @ \cup {w.id}]]
    /\ UNCHANGED <<clock, fetchCache, agentFiles, indexFile, indexMutex,
                   scheduler, writer, readers, call, marked>>

SweepFetchFailed_EndsSweep(w) ==
    [w EXCEPT !.pc = "loop", !.id = MaxAgentID + 1, !.errorCount = @ + 1,
              !.fetchFailed = @ \cup {w.id}]

\* Lines 112-117: FetchHTML fails.
SweepFetchFailed(w) ==
    [w EXCEPT !.pc = "loop", !.id = @ + 1, !.errorCount = @ + 1,
              !.fetchFailed = @ \cup {w.id}]

SweepParseFailed_Retries(w) ==
    [w EXCEPT !.pc = "loop"]

\* Lines 120-125: parseAgentPage fails.
SweepParseFailed(w) ==
    [w EXCEPT !.pc = "loop", !.id = @ + 1, !.errorCount = @ + 1,
              !.parseFailed = @ \cup {w.id}]

\* Lines 127-139: the entity is counted and kept for the index.
SweepSucceeded(w, agent) ==
    [w EXCEPT !.pc = "loop", !.id = @ + 1, !.successCount = @ + 1,
              !.agents = Append(@, agent)]

\* Lines 112-139: FetchHTML returns, the page is parsed, the id is marked.
SweepFetch(s) ==
    \E out \in FetchOutcomes, page \in WebPages(sweeps[s].id) :
        \E parsed \in {ParseAgentPage(page)} :
            /\ sweeps[s].pc = "fetch"
            /\ sweeps' = [sweeps EXCEPT ![s] =
                    IF out # "ok" THEN SweepFetchFailed(sweeps[s])
                    ELSE IF parsed.err # "nil" THEN SweepParseFailed(sweeps[s])
                    ELSE SweepSucceeded(sweeps[s], parsed.agent)]
            /\ fetchCache' = IF out = "ok" /\ parsed.err = "nil"
                             THEN MarkFetched(sweeps[s].id)
                             ELSE fetchCache
            /\ marked' = IF out = "ok" /\ parsed.err = "nil"
                         THEN PutKey(marked, sweeps[s].id, clock)
                         ELSE marked
            /\ UNCHANGED <<clock, agentFiles, indexFile, indexMutex, scheduler,
                           writer, readers, call>>

\* Lines 142-147: the summary a sweep logs after its loop.
SweepSummary(w) ==
    [attempts |-> MaxAgentID - startAgentID + 1,
     successful |-> w.successCount,
     failed |-> w.errorCount,
     found |-> Len(w.agents)]

RebuildsIndex_Always(agents) == TRUE

\* Line 149: the index is rebuilt only from a list that is not empty.
RebuildsIndex(agents) == Len(agents) > 0

\* Lines 149-155: what UpdateIndex returned to the sweep, "none" when the
\* sweep did not call it.
SweepIndexErr(w, io) ==
    IF RebuildsIndex(w.agents) THEN UpdateIndex(w.agents, io).err ELSE "none"

\* Lines 142-157, all but the record of the call.
SweepReturn(s, io) ==
    /\ sweeps[s].pc = "loop"
    /\ sweeps[s].id > MaxAgentID
    /\ LockFree(indexMutex)
    /\ indexFile' = IF RebuildsIndex(sweeps[s].agents)
                    THEN UpdateIndex(sweeps[s].agents, io).file
                    ELSE indexFile
    /\ sweeps' = [sweeps EXCEPT ![s] = IdleSweep]
    /\ UNCHANGED <<clock, fetchCache, agentFiles, indexMutex, scheduler,
                   writer, readers, marked>>

\* Lines 142-157: the summary, the index rebuild, the return.
SweepFinish(s) ==
    \E io \in WriteOutcomes :
        /\ SweepReturn(s, io)
        /\ UNCHANGED call

\* Hours pass.  A sweep lasts (maxAgentID - startAgentID + 1) fetches of at
\* most 55 s and as many pauses of 500 ms, well under the throttle window,
\* so the model lets the window elapse only between sweeps.
ClockSteps == {TTL + 1}

Tick ==
    \E d \in ClockSteps :
        /\ \A s \in Slots : sweeps[s].pc = "idle"
        /\ AdvanceClock(d, MaxClock)
        /\ UNCHANGED <<fetchCache, agentFiles, indexFile, indexMutex, scheduler,
                       sweeps, writer, readers, call, marked>>

StopSchedulerOn_NoNilCheck(st) ==
    IF st = "nil" THEN "panic"
    ELSE IF st = "running" THEN "stopped"
    ELSE st

\* StopScheduler, lines 442-446, on the scheduler it finds: nothing when
\* there is none; cron.Stop stops a running scheduler and leaves any other
\* as it is.
StopSchedulerOn(st) ==
    IF st = "nil" THEN st
    ELSE IF st = "running" THEN "stopped"
    ELSE st

StopScheduler ==
    /\ scheduler # "panic"
    /\ scheduler' = StopSchedulerOn(scheduler)
    /\ call' = [op |-> "StopScheduler"]
    /\ UNCHANGED <<clock, fetchCache, agentFiles, indexFile, indexMutex,
                   sweeps, writer, readers, marked>>

\* NewVirtualsScraper returns a scraper whose scheduler is running.  A
\* scraper that was not made by it has no scheduler ("nil"), and one whose
\* scheduler was made but not started has it idle ("new").
Init ==
    /\ clock = 0
    /\ fetchCache = Empty
    /\ agentFiles = Empty
    /\ indexFile = NoFile
    /\ indexMutex = [w |-> FALSE, r |-> 0]
    /\ scheduler \in {"nil", "new", "running"}
    /\ sweeps = [s \in Slots |-> IdleSweep]
    /\ writer = [pc |-> "idle"]
    /\ readers = <<>>
    /\ call = NoCall
    /\ marked = [x \in {} |-> 0]

Next ==
    \/ \E s \in Slots : CronTick(s)
    \/ \E s \in Slots : SweepCheck(s)
    \/ \E s \in Slots : SweepFetch(s)
    \/ \E s \in Slots : SweepFinish(s)
    \/ StopScheduler
    \/ Tick

Spec == Init /\ [][Next]_vars

----------------------------------------------------------------------------
(* SpecRecord: one goroutine calling SaveAgent again and again, step by    *)
(* step, and NumReaders goroutines calling GetAgent (the HTTP handlers of  *)
(* part_000).  No lock guards a record file.                               *)

IdleGetter ==
    [pc |-> "idle", id |-> "", res |-> [err |-> "none"], inFlight |-> FALSE,
     old |-> [err |-> "none"], new |-> [err |-> "none"]]

\* Lines 56-82: the stamped entity, with the count it is written with.
SaveAgentRecord(agent) == SaveAgent(agent, "ok").agent

\* The IDs the records are written under.
RecordIDs == {SaveAgentRecord(x).ID : x \in BatchEntities}

\* SaveAgent, lines 56-86: all that comes before os.WriteFile.  prev is
\* what GetAgent returned for the ID before the call.
SaverCall ==
    \E agent \in BatchEntities :
        /\ writer.pc \in {"idle", "returned"}
        /\ SaveAgentRecord(agent).UpdateCount <= MaxUpdateCount
        /\ writer' = [pc |-> "open", id |-> SaveAgentRecord(agent).ID,
                      data |-> MarshalAgent(SaveAgentRecord(agent)),
                      err |-> "none",
                      prev |-> GetAgent(SaveAgentRecord(agent).ID)]
        /\ UNCHANGED <<clock, fetchCache, agentFiles, indexFile, indexMutex,
                       scheduler, sweeps, readers, call, marked>>

\* os.WriteFile, line 88: the open, which truncates the file.
SaverOpen ==
    \E io \in {"ok", "open"} :
        /\ writer.pc = "open"
        /\ agentFiles' = IF io = "open" THEN agentFiles
                         ELSE PutKey(agentFiles, writer.id, PartialFile)
        /\ writer' = IF io = "open"
                     THEN [writer EXCEPT !.pc = "returned", !.err = "write"]
                     ELSE [writer EXCEPT !.pc = "write"]
        /\ UNCHANGED <<clock, fetchCache, indexFile, indexMutex, scheduler,
                       sweeps, readers, call, marked>>

\* os.WriteFile, line 88: the write, the close and the return.
SaverWrite ==
    \E io \in {"ok", "write"} :
        /\ writer.pc = "write"
        /\ agentFiles' = PutKey(agentFiles, writer.id,
                                WriteFile(agentFiles[writer.id], writer.data, io))
        /\ writer' = [writer EXCEPT !.pc = "returned",
                                    !.err = IF io = "ok" THEN "nil" ELSE "write"]
        /\ UNCHANGED <<clock, fetchCache, indexFile, indexMutex, scheduler,
                       sweeps, readers, call, marked>>

\* GetAgent, lines 130-143: read the file and decode it.  inFlight records
\* that a SaveAgent of the same ID was in os.WriteFile, over a record that
\* could be read before; old and new are the record before that SaveAgent
\* and the one it writes.
GetterRead(r) ==
    \E id \in RecordIDs :
        /\ readers[r].pc = "idle"
        /\ readers' = [readers EXCEPT ![r] =
              [pc |-> "returned", id |-> id, res |-> GetAgent(id),
               inFlight |-> /\ writer.pc \in {"open", "write"}
                            /\ writer.id = id
                            /\ writer.prev.err = "nil",
               old |-> IF writer.pc \in {"open", "write"} /\ writer.id = id
                       THEN writer.prev ELSE [err |-> "none"],
               new |-> IF writer.pc \in {"open", "write"} /\ writer.id = id
                       THEN [err |-> "nil", agent |-> UnmarshalAgent(writer.data)]
                       ELSE [err |-> "none"]]]
        /\ UNCHANGED <<clock, fetchCache, agentFiles, indexFile, indexMutex,
                       scheduler, sweeps, writer, call, marked>>

\* The caller of GetAgent goes on.
GetterReturn(r) ==
    /\ readers[r].pc = "returned"
    /\ readers' = [readers EXCEPT ![r] = IdleGetter]
    /\ UNCHANGED <<clock, fetchCache, agentFiles, indexFile, indexMutex,
                   scheduler, sweeps, writer, call, marked>>

RecordInit ==
    /\ clock = 0
    /\ fetchCache = Empty
    /\ agentFiles = Empty
    /\ indexFile = NoFile
    /\ indexMutex = [w |-> FALSE, r |-> 0]
    /\ scheduler = "running"
    /\ sweeps = <<>>
    /\ writer = [pc |-> "idle"]
    /\ readers = [r \in Readers |-> IdleGetter]
    /\ call = NoCall
    /\ marked = <<>>

RecordNext ==
    \/ SaverCall
    \/ SaverOpen
    \/ SaverWrite
    \/ \E r \in Readers : GetterRead(r)
    \/ \E r \in Readers : GetterReturn(r)

SpecRecord == RecordInit /\ [][RecordNext]_vars

----------------------------------------------------------------------------
(* SpecSweep: the scraper when every sweep has returned before the next    *)
(* tick, so that one ScrapeAgents runs at a time (slot 1).  call is the    *)
(* record of the latest ScrapeAgents call: whether its log file could be   *)
(* opened and, once it has returned, what it gave back.                    *)

IdleRun ==
    [op |-> "ScrapeAgents", log |-> "none", err |-> "none", indexErr |-> "none",
     summary |-> SweepSummary(IdleSweep)]

OneTick ==
    \E log \in LogOutcomes, mk \in {"ok", "mkdir"} :
        /\ CronStart(1, log, mk)
        /\ call' = IF mk = "ok"
                   THEN [IdleRun EXCEPT !.log = log]
                   ELSE [IdleRun EXCEPT !.log = log,
                                        !.err = ScrapeAgentsReturns(mk, "none")]

OneFinish ==
    \E io \in WriteOutcomes :
        /\ SweepReturn(1, io)
        /\ call' = [call EXCEPT
                       !.err = ScrapeAgentsReturns("ok", SweepIndexErr(sweeps[1], io)),
                       !.indexErr = SweepIndexErr(sweeps[1], io),
                       !.summary = SweepSummary(sweeps[1])]

SweepInit ==
    /\ clock = 0
    /\ fetchCache = Empty
    /\ agentFiles = Empty
    /\ indexFile = NoFile
    /\ indexMutex = [w |-> FALSE, r |-> 0]
    /\ scheduler = "running"
    /\ sweeps = [s \in Slots |-> IdleSweep]
    /\ writer = [pc |-> "idle"]
    /\ readers = <<>>
    /\ call = IdleRun
    /\ marked = [x \in {} |-> 0]

SweepNext ==
    \/ OneTick
    \/ SweepCheck(1)
    \/ SweepFetch(1)
    \/ OneFinish
    \/ Tick

SpecSweep == SweepInit /\ [][SweepNext]_vars

\* The goroutine of the sweep runs on, and the calls it waits for return:
\* ShouldFetch and MarkFetched hold their lock for one map access, FetchHTML
\* returns within its timeout, UpdateIndex writes one file.
SpecSweepLive ==
    /\ SpecSweep
    /\ WF_vars(SweepCheck(1))
    /\ WF_vars(SweepFetch(1))
    /\ WF_vars(OneFinish)

----------------------------------------------------------------------------
(* SpecThrottle: callers of MarkFetched while the hours pass.              *)

ThrottleMark(id) ==
    /\ fetchCache' = MarkFetched(id)
    /\ marked' = PutKey(marked, id, clock)
    /\ UNCHANGED <<clock, agentFiles, indexFile, indexMutex, scheduler,
                   sweeps, writer, readers, call>>

ThrottleTick ==
    /\ AdvanceClock(1, MaxHours)
    /\ UNCHANGED <<fetchCache, agentFiles, indexFile, indexMutex, scheduler,
                   sweeps, writer, readers, call, marked>>

ThrottleInit ==
    /\ clock = 0
    /\ fetchCache = Empty
    /\ agentFiles = Empty
    /\ indexFile = NoFile
    /\ indexMutex = [w |-> FALSE, r |-> 0]
    /\ scheduler = "running"
    /\ sweeps = <<>>
    /\ writer = [pc |-> "idle"]
    /\ readers = <<>>
    /\ call = NoCall
    /\ marked = [x \in {} |-> 0]

ThrottleNext ==
    \/ \E id \in ScanIDs : ThrottleMark(id)
    \/ ThrottleTick

SpecThrottle == ThrottleInit /\ [][ThrottleNext]_vars

----------------------------------------------------------------------------
(* SpecAgent: the methods of models.Agent applied to a struct of any       *)
(* content.  call holds the struct before the last method (arg) and after  *)
(* it (agent).                                                             *)

\* Descriptions with the words of UpdateStatus in mixed case, inside other
\* text, and without them.
LatentDescriptions ==
    {<<"I","n","A","c","t","i","v","e">>,
     <<"x"," ","D","I","S","C","O","N","T","I","N","U","E","D","!">>}

OtherDescriptions == {<<>>, <<"a","c","t","i","v","e">>}

AgentInputs ==
    {[NewAgent(n, p, d) EXCEPT !.ID = i, !.UpdateCount = c, !.Stats = st,
                               !.Status = status, !.LastChecked = t,
                               !.ScrapedAt = t, !.TokenData.TVL = st,
                               !.InfluenceMetrics.Followers = st] :
        n \in {"", "a"}, p \in {"", "1"},
        d \in LatentDescriptions \cup OtherDescriptions,
        i \in {"", "old"}, c \in {0, 1}, st \in {"", "s"},
        status \in {"", StatusActive}, t \in {ZeroTime, UnmarshalTime(1)}}

AgentGenerateID ==
    /\ call' = [op |-> "GenerateID", arg |-> call.agent,
                agent |-> GenerateID(call.agent)]
    /\ UNCHANGED <<clock, fetchCache, agentFiles, indexFile, indexMutex,
                   scheduler, sweeps, writer, readers, marked>>

AgentUpdateStatus ==
    /\ call' = [op |-> "UpdateStatus", arg |-> call.agent,
                agent |-> UpdateStatus(call.agent)]
    /\ UNCHANGED <<clock, fetchCache, agentFiles, indexFile, indexMutex,
                   scheduler, sweeps, writer, readers, marked>>

AgentInit ==
    /\ clock = 0
    /\ fetchCache = Empty
    /\ agentFiles = Empty
    /\ indexFile = NoFile
    /\ indexMutex = [w |-> FALSE, r |-> 0]
    /\ scheduler = "running"
    /\ sweeps = <<>>
    /\ writer = [pc |-> "idle"]
    /\ readers = <<>>
    /\ call \in {[op |-> "new", arg |-> a, agent |-> a] : a \in AgentInputs}
    /\ marked = <<>>

AgentNext == AgentGenerateID \/ AgentUpdateStatus

SpecAgent == AgentInit /\ [][AgentNext]_vars

----------------------------------------------------------------------------
(* SpecPair: GenerateID on two entities whose names and prices may contain *)
(* the "-" that GenerateID puts between the two.  call holds the two       *)
(* structs, x and y.                                                       *)

PairNames == {"a", "a-b", "b"}
PairPrices == {"", "c", "b-c"}

PairEntities == {NewAgent(n, p, <<>>) : n \in PairNames, p \in PairPrices}

\* The path of the record file of an entity, SaveAgent line 64.
FilePath(a) == "agents/" \o a.ID \o ".json"

PairGenerateX ==
    /\ call.x.ID = ""
    /\ call' = [call EXCEPT !.x = GenerateID(call.x)]
    /\ UNCHANGED <<clock, fetchCache, agentFiles, indexFile, indexMutex,
                   scheduler, sweeps, writer, readers, marked>>

PairGenerateY ==
    /\ call.y.ID = ""
    /\ call' = [call EXCEPT !.y = GenerateID(call.y)]
    /\ UNCHANGED <<clock, fetchCache, agentFiles, indexFile, indexMutex,
                   scheduler, sweeps, writer, readers, marked>>

PairInit ==
    /\ clock = 0
    /\ fetchCache = Empty
    /\ agentFiles = Empty
    /\ indexFile = NoFile
    /\ indexMutex = [w |-> FALSE, r |-> 0]
    /\ scheduler = "running"
    /\ sweeps = <<>>
    /\ writer = [pc |-> "idle"]
    /\ readers = <<>>
    /\ call \in {[op |-> "GenerateID", x |-> a, y |-> b] :
                    a \in PairEntities, b \in PairEntities}
    /\ marked = <<>>

PairNext == PairGenerateX \/ PairGenerateY

SpecPair == PairInit /\ [][PairNext]_vars

----------------------------------------------------------------------------
(* SpecFetch: FetchHTML, step by step.  call is the frame of the call: the  *)
(* goroutine that runs chromedp, the two buffered channels, the 55 s timer, *)
(* the variable htmlContent, and what the call returns.  A *Document is a   *)
(* sequence: <<>> for nil, <<page>> for the document of a page.             *)

IdleFetch ==
    [op |-> "FetchHTML", pc |-> "idle", id |-> startAgentID,
     page |-> [name |-> "", price |-> "", description |-> <<>>],
     goroutine |-> "none", errChan |-> FALSE, doneChan |-> FALSE,
     timer |-> FALSE, debugScreenshot |-> FALSE, pageTitle |-> FALSE,
     htmlContent |-> <<>>, doc |-> <<>>, err |-> "none", debug |-> FALSE,
     allocCtx |-> "none", browserCtx |-> "none", timeoutCtx |-> "none"]

\* The cases of the select of lines 209-218 that can proceed.
ReadyCases(c) ==
    {x \in {"err", "done", "timer"} :
        \/ x = "err" /\ c.errChan
        \/ x = "done" /\ c.doneChan
        \/ x = "timer" /\ c.timer}

FetchReturn_DocumentOnTimeout(c, x) ==
    IF x = "err"
    THEN [c EXCEPT !.pc = "returned", !.doc = <<>>, !.err = "automation", !.errChan = FALSE]
    ELSE IF x = "timer"
    THEN [c EXCEPT !.pc = "returned", !.doc = c.htmlContent, !.err = "timeout"]
    ELSE [c EXCEPT !.pc = "save", !.doneChan = FALSE]

\* Lines 210-217: what the chosen case does.
FetchReturn(c, x) ==
    IF x = "err"
    THEN [c EXCEPT !.pc = "returned", !.doc = <<>>, !.err = "automation", !.errChan = FALSE]
    ELSE IF x = "timer"
    THEN [c EXCEPT !.pc = "returned", !.doc = <<>>, !.err = "timeout"]
    ELSE [c EXCEPT !.pc = "save", !.doneChan = FALSE]

RunDefers_LeavesBrowser(c) ==
    [c EXCEPT !.timeoutCtx = "cancelled", !.allocCtx = "cancelled"]

\* Lines 175, 178, 182: the deferred cancel functions, run at the return in
\* the reverse order of the defer statements.
RunDefers(c) ==
    [c EXCEPT !.timeoutCtx = "cancelled", !.browserCtx = "cancelled",
              !.allocCtx = "cancelled"]

\* The frame when a step of FetchHTML is over: the defers have run if the
\* step was a return.
AfterStep(c) == IF c.pc = "returned" THEN RunDefers(c) ELSE c

\* Lines 160-207: the call makes its three contexts, starts the goroutine
\* and waits in the select.
FetchCall ==
    \E id \in ScanIDs :
        \E page \in WebPages(id) :
            /\ call.pc \in {"idle", "returned"}
            /\ call' = [IdleFetch EXCEPT !.pc = "select", !.id = id, !.page = page,
                                         !.goroutine = "running",
                                         !.allocCtx = "live",
                                         !.browserCtx = "live",
                                         !.timeoutCtx = "live"]
            /\ UNCHANGED <<clock, fetchCache, agentFiles, indexFile, indexMutex,
                           scheduler, sweeps, writer, readers, marked>>

\* Lines 193-197: the page is up and the screenshot is taken.
ChromeCaptureScreenshot ==
    /\ call.goroutine = "running"
    /\ ~call.debugScreenshot
    /\ call' = [call EXCEPT !.debugScreenshot = TRUE]
    /\ UNCHANGED <<clock, fetchCache, agentFiles, indexFile, indexMutex,
                   scheduler, sweeps, writer, readers, marked>>

\* Line 198: the title is read.
ChromeTitle ==
    /\ call.goroutine = "running"
    /\ call.debugScreenshot
    /\ ~call.pageTitle
    /\ call' = [call EXCEPT !.pageTitle = TRUE]
    /\ UNCHANGED <<clock, fetchCache, agentFiles, indexFile, indexMutex,
                   scheduler, sweeps, writer, readers, marked>>

\* Lines 199-200: the page is read into htmlContent, chromedp.Run returns
\* nil; the goroutine is at the send of line 205.
ChromeRunDone ==
    /\ call.goroutine = "running"
    /\ call.pageTitle
    /\ call' = [call EXCEPT !.goroutine = "sendDone",
                            !.htmlContent = <<call.page>>]
    /\ UNCHANGED <<clock, fetchCache, agentFiles, indexFile, indexMutex,
                   scheduler, sweeps, writer, readers, marked>>

\* Lines 193-201: chromedp.Run returns an error (the context's 60 s or its
\* cancellation when FetchHTML has returned among them); the goroutine is
\* at the send of line 202.
ChromeRunError ==
    /\ call.goroutine = "running"
    /\ call' = [call EXCEPT !.goroutine = "sendErr"]
    /\ UNCHANGED <<clock, fetchCache, agentFiles, indexFile, indexMutex,
                   scheduler, sweeps, writer, readers, marked>>

\* Lines 189-190: make(chan error, 1), make(chan bool, 1).
ChanCap == 1

CanSend_Unbuffered(full, c) == c.pc = "select"

\* A send on a channel goes through when its buffer has room; full says
\* that the channel holds a value.
CanSend(full, c) == (IF full THEN 1 ELSE 0) < ChanCap

\* Lines 202 and 205: the send, after which the goroutine is over.
GoroutineSend ==
    /\ call.goroutine \in {"sendDone", "sendErr"}
    /\ CanSend(IF call.goroutine = "sendDone" THEN call.doneChan ELSE call.errChan,
               call)
    /\ call' = IF call.goroutine = "sendDone"
               THEN [call EXCEPT !.goroutine = "exited", !.doneChan = TRUE]
               ELSE [call EXCEPT !.goroutine = "exited", !.errChan = TRUE]
    /\ UNCHANGED <<clock, fetchCache, agentFiles, indexFile, indexMutex,
                   scheduler, sweeps, writer, readers, marked>>

\* Line 215: time.After(55 s) delivers.
TimerFires ==
    /\ call.pc = "select"
    /\ ~call.timer
    /\ call' = [call EXCEPT !.timer = TRUE]
    /\ UNCHANGED <<clock, fetchCache, agentFiles, indexFile, indexMutex,
                   scheduler, sweeps, writer, readers, marked>>

FetchSelect ==
    \E x \in ReadyCases(call) :
        /\ call.pc = "select"
        /\ call' = AfterStep(FetchReturn(call, x))
        /\ UNCHANGED <<clock, fetchCache, agentFiles, indexFile, indexMutex,
                       scheduler, sweeps, writer, readers, marked>>

\* Lines 220-244: the debug files are written when their directory can be
\* made, and the document is built from htmlContent.
FetchSaveDebug ==
    \E mk \in {"ok", "mkdir"} :
        /\ call.pc = "save"
        /\ call' = AfterStep([call EXCEPT !.pc = "returned", !.debug = (mk = "ok"),
                                          !.doc = call.htmlContent, !.err = "nil"])
        /\ UNCHANGED <<clock, fetchCache, agentFiles, indexFile, indexMutex,
                       scheduler, sweeps, writer, readers, marked>>

FetchInit ==
    /\ clock = 0
    /\ fetchCache = Empty
    /\ agentFiles = Empty
    /\ indexFile = NoFile
    /\ indexMutex = [w |-> FALSE, r |-> 0]
    /\ scheduler = "running"
    /\ sweeps = <<>>
    /\ writer = [pc |-> "idle"]
    /\ readers = <<>>
    /\ call = IdleFetch
    /\ marked = <<>>

FetchNext ==
    \/ FetchCall
    \/ ChromeCaptureScreenshot
    \/ ChromeTitle
    \/ ChromeRunDone
    \/ ChromeRunError
    \/ GoroutineSend
    \/ TimerFires
    \/ FetchSelect
    \/ FetchSaveDebug

SpecFetch == FetchInit /\ [][FetchNext]_vars

\* FetchHTML runs on: the runtime delivers the timer and lets the goroutine
\* of the call take its steps.  Nothing is assumed of the automation.
SpecFetchLive ==
    /\ SpecFetch
    /\ WF_vars(TimerFires)
    /\ WF_vars(FetchSelect)
    /\ WF_vars(FetchSaveDebug)

\* And the Go scheduler runs the goroutine when its send can go through.
SpecFetchSend == SpecFetchLive /\ WF_vars(GoroutineSend)

----------------------------------------------------------------------------
(* SpecExtract: extractTextBySelector and parseAgentPage on a document.    *)
(* The text of an element is a sequence of characters.  A document is seen *)
(* through doc.Find: it gives, for a selector, the texts of the elements   *)
(* the selector matches, in document order.  call holds the document, the  *)
(* map extractTextBySelector returned and what parseAgentPage returned.    *)

MaxMatches == 2

\* parseAgentPage, lines 279-296.
Selectors ==
    [name |-> <<".text-neutral10.text-2xl", "h1", ".agent-name", "div.text-2xl">>,
     price |-> <<".text-neutral30", "div:contains('$')", ".price">>,
     description |-> <<"div:contains('Biography') + div",
                       ".text-base.text-neutral30.break-all",
                       ".agent-description">>]

Fields == DOMAIN Selectors

\* Element texts: blank, and two texts with white space around them.
Texts == {<<" ">>, <<" ", "a">>, <<"b", " ">>}

\* The elements of a document come in three groups; a selector matches the
\* elements of one group (several selectors can match the same elements).
Groups == 1..3

GroupOf ==
    [name |-> <<1, 2, 3, 1>>, price |-> <<2, 3, 2>>, description |-> <<3, 2, 3>>]

ElementLists == UNION {[1..n -> Texts] : n \in 0..MaxMatches}

Documents == [Groups -> ElementLists]

\* doc.Find(selector), for the k-th selector of a field.
Find(doc, field, k) == doc[GroupOf[field][k]]

\* strings.TrimSpace.
TrimSpace(t) ==
    LET inked == {i \in 1..Len(t) : t[i] # " "}
    IN  IF inked = {} THEN <<>>
        ELSE SubSeq(t, CHOOSE i \in inked : \A j \in inked : i <= j,
                       CHOOSE i \in inked : \A j \in inked : i >= j)

\* A Go string of the model's texts as a TLA+ string.
RECURSIVE StringOf(_)
StringOf(t) == IF t = <<>> THEN "" ELSE t[1] \o StringOf(Tail(t))

KeepFirst_Overwrites(res, text) ==
    IF text # <<>> THEN <<text>> ELSE res

\* Lines 254-260, on one element: res is <<>> while result has no entry for
\* the field, <<text>> when it has one.
KeepFirst(res, text) ==
    IF text # <<>> /\ res = <<>> THEN <<text>> ELSE res

\* Line 253: Each, over the elements a selector matches.
RECURSIVE EachElement(_, _, _)
EachElement(res, elements, i) ==
    IF i > Len(elements) THEN res
    ELSE EachElement(KeepFirst(res, TrimSpace(elements[i])), elements, i + 1)

\* Line 252: the selectors of a field, in the order of its list.
RECURSIVE EachSelector(_, _, _, _)
EachSelector(res, doc, field, k) ==
    IF k > Len(Selectors[field]) THEN res
    ELSE EachSelector(EachElement(res, Find(doc, field, k), 1), doc, field, k + 1)

\* extractTextBySelector, lines 248-265: the map it returns has an entry
\* for the fields for which a text was found.
ExtractTextBySelector(doc) ==
    LET res == [f \in Fields |-> EachSelector(<<>>, doc, f, 1)]
    IN  [f \in {g \in Fields : res[g] # <<>>} |-> res[f][1]]

\* extracted[field], lines 322-324: the zero value when there is no entry.
Extracted(m, field) == IF field \in DOMAIN m THEN m[field] ELSE <<>>

\* The texts the selectors extracted, as parseAgentPage uses them.
PageOf(m) ==
    [name |-> StringOf(Extracted(m, "name")),
     price |-> StringOf(Extracted(m, "price")),
     description |-> Extracted(m, "description")]

ExtractCall ==
    /\ call.op = "new"
    /\ call' = [call EXCEPT !.op = "extractTextBySelector",
                            !.extracted = ExtractTextBySelector(call.doc)]
    /\ UNCHANGED <<clock, fetchCache, agentFiles, indexFile, indexMutex,
                   scheduler, sweeps, writer, readers, marked>>

ExtractParse ==
    /\ call.op = "extractTextBySelector"
    /\ call' = [call EXCEPT !.op = "parseAgentPage",
                            !.parsed = ParseAgentPage(PageOf(call.extracted))]
    /\ UNCHANGED <<clock, fetchCache, agentFiles, indexFile, indexMutex,
                   scheduler, sweeps, writer, readers, marked>>

ExtractInit ==
    /\ clock = 0
    /\ fetchCache = Empty
    /\ agentFiles = Empty
    /\ indexFile = NoFile
    /\ indexMutex = [w |-> FALSE, r |-> 0]
    /\ scheduler = "running"
    /\ sweeps = <<>>
    /\ writer = [pc |-> "idle"]
    /\ readers = <<>>
    /\ call \in {[op |-> "new", doc |-> d, extracted |-> <<>>,
                   parsed |-> [err |-> "none"]] : d \in Documents}
    /\ marked = <<>>

ExtractNext == ExtractCall \/ ExtractParse

SpecExtract == ExtractInit /\ [][ExtractNext]_vars

----------------------------------------------------------------------------
(* Claims about SaveAgent, under SpecStore *)

Persisted(id) == GetAgent(id).agent

\* C1: a SaveAgent of content identical, but for the timestamps, to the
\* persisted record is a no-op: the persisted UpdateCount stays what it was.
C1_SecondSaveKeepsCount ==
    (call.op = "SaveAgent" /\ call.err = "nil" /\ call.same)
        => /\ GetAgent(call.id).err = "nil"
           /\ Persisted(call.id).UpdateCount = call.preCount

\* C35: a SaveAgent of unchanged content returns success without writing,
\* and leaves the entity the caller passed as it was: its UpdateCount after
\* the call is the one it was passed with.
C35_NoOpSaveLeavesEntityAlone ==
    (call.op = "SaveAgent" /\ call.err = "nil" /\ call.same)
        => /\ ~call.wrote
           /\ call.outCount = call.argCount

\* C36: every record SaveAgent persisted from an entity passed with
\* UpdateCount >= 0 has the Status that UpdateStatus gives for the record's
\* own Price, Description and UpdateCount, and never the status "default".
C36_PersistedStatusFollowsRule ==
    \A id \in DOMAIN agentFiles :
        GetAgent(id).err = "nil"
            => /\ Persisted(id).Status = UpdateStatus(Persisted(id)).Status
               /\ Persisted(id).Status # StatusDefault
               /\ Persisted(id).UpdateCount >= 1

\* A record was written over an existing one, with the count of the
\* existing one plus one and not the caller's, and it is latent.
C36_Witness ==
    /\ call.op = "SaveAgent" /\ call.wrote /\ call.preErr = "nil"
    /\ call.argCount = 0
    /\ Persisted(call.id).UpdateCount = 2
    /\ Persisted(call.id).Status = StatusLatent

\* C2: a SaveAgent whose content differs from the persisted record of the
\* same ID persists UpdateCount = previous + 1, whatever count was passed.
C2_ChangedSaveAddsOne ==
    (call.op = "SaveAgent" /\ call.err = "nil" /\ call.preErr = "nil" /\ ~call.same)
        => /\ GetAgent(call.id).err = "nil"
           /\ Persisted(call.id).UpdateCount = call.preCount + 1

C2_Witness ==
    /\ call.op = "SaveAgent" /\ call.err = "nil" /\ call.preErr = "nil"
    /\ ~call.same
    /\ call.argCount + 1 # call.preCount + 1
    /\ GetAgent(call.id).err = "nil"
    /\ Persisted(call.id).UpdateCount = 2

\* The IDs a record can be stored under.
SavedIDs == {SaveAgentStamp(a).ID : a \in StoreInputs}

\* C11: a SaveAgent that fails leaves no corrupted or truncated record: a
\* GetAgent of that ID then returns the complete previous record or finds
\* no record, never a decode failure.
C11_FailedSaveLeavesNoCorruptRecord ==
    [][\A id \in SavedIDs :
        (call'.op = "SaveAgent" /\ call'.id = id /\ call'.err # "nil" /\ clock' = clock)
            => \/ GetAgent(id)' = GetAgent(id)
               \/ GetAgent(id)' = [err |-> "read"]
      ]_vars

\* C18: GetAgent returns the stored entity when there is a record; when
\* there is none the caller is given a not-found outcome, and a record that
\* cannot be read or decoded is reported by another outcome than that one.
C18_NotFoundOnlyWhenNoRecord ==
    \A id \in SavedIDs :
        /\ GetAgent(id).err = "nil"
              => HandleGetAgent(id) = [status |-> 200, body |-> Persisted(id)]
        /\ id \notin DOMAIN agentFiles => HandleGetAgent(id).status = 404
        /\ (id \in DOMAIN agentFiles /\ GetAgent(id).err # "nil")
              => HandleGetAgent(id).status # 404

\* The content ID of a record: the ID GenerateID derives from its own Name
\* and Price.
ContentID(a) == GenerateID(a).ID

\* The content IDs of the entities the callers pass.
ContentIDs == {ContentID(NewAgent(n, p, <<>>)) : n \in StoreNames, p \in StorePrices}

\* C24: every record SaveAgent has persisted carries the content ID of its
\* own Name and Price, also when the caller passed an entity with the ID of
\* an earlier name or price.
C24_PersistedIDIsContentID ==
    \A id \in SavedIDs :
        GetAgent(id).err = "nil"
            => /\ Persisted(id).ID = id
               /\ Persisted(id).ID = ContentID(Persisted(id))

\* C25: a SaveAgent for an ID that has no record on disk persists the
\* record with UpdateCount = 1, whatever UpdateCount the caller passed.
C25_FirstSaveCountsOne ==
    (call.op = "SaveAgent" /\ call.err = "nil" /\ call.preErr = "read")
        => /\ GetAgent(call.id).err = "nil"
           /\ Persisted(call.id).UpdateCount = 1

\* C26: the UpdateCount stored under an ID never decreases over the
\* SaveAgent calls made for that ID one after another, those made while the
\* file is there but cannot be decoded included: a record stored under the
\* ID has a count that is not below the highest count stored before.
C26_StoredCountNeverDecreases ==
    (call.op = "SaveAgent" /\ GetAgent(call.id).err = "nil")
        => Persisted(call.id).UpdateCount >= call.high

----------------------------------------------------------------------------
(* Claims about SaveAgents, under SpecBatch *)

\* C23: no store operation removes a record: once GetAgent(id) succeeds it
\* still succeeds after every step of a SaveAgents call (its SaveAgent
\* calls and its UpdateIndex) that met no I/O failure, also when the entity
\* is saved again under another content ID or is not saved again.
C23_RecordsAreNeverRemoved ==
    [][\A id \in ContentIDs :
        (GetAgent(id).err = "nil" /\ ~call'.failed)
            => /\ GetAgent(id)'.err = "nil"
               /\ Persisted(id)'.ID = Persisted(id).ID
      ]_vars

C23_Witness ==
    /\ call.pc = "returned" /\ ~call.failed
    /\ Len(call.agents) = 1
    /\ call.agents[1].Price = "1" /\ call.agents[1].ID = ""
    /\ \A id \in ContentIDs : GetAgent(id).err = "nil"
    /\ ReadIndex(indexFile).err = "nil"
    /\ \A i \in 1..Len(ReadIndex(indexFile).index.Agents) :
          ReadIndex(indexFile).index.Agents[i].Price = "1"

\* C32: SaveAgents goes on to the next entity when a SaveAgent fails, calls
\* UpdateIndex once every entity was tried, with the whole input sequence,
\* and returns what UpdateIndex returned, whatever the saves did.
C32_SaveAgentsAbsorbsSaveErrors ==
    [][/\ (call.pc = "loop" /\ call'.pc = "loop")
            => /\ call'.i = call.i + 1
               /\ call'.agents = call.agents
               /\ indexFile' = indexFile
       /\ (call.pc = "loop" /\ call'.pc = "returned")
            => /\ call.i = Len(call.agents) + 1
               /\ \E io \in WriteOutcomes :
                    /\ call'.err = UpdateIndex(call.agents, io).err
                    /\ indexFile' = UpdateIndex(call.agents, io).file
               /\ call'.err = "nil"
                    => /\ ReadIndex(indexFile').err = "nil"
                       /\ Len(ReadIndex(indexFile').index.Agents) = Len(call.agents)
                       /\ \A i \in 1..Len(call.agents) :
                            /\ ReadIndex(indexFile').index.Agents[i].Name
                                 = call.agents[i].Name
                            /\ ReadIndex(indexFile').index.Agents[i].Price
                                 = call.agents[i].Price
      ]_vars

\* SaveAgents returned nil although the save of its first entity failed and
\* left no record; both entities are in the index.
C32_Witness ==
    /\ call.pc = "returned" /\ call.err = "nil" /\ call.failed
    /\ Len(call.agents) = 2
    /\ GetAgent(ContentID(call.agents[1])).err # "nil"
    /\ GetAgent(ContentID(call.agents[2])).err = "nil"
    /\ Len(ReadIndex(indexFile).index.Agents) = 2

\* C34: after SaveAgents returned without error, every Summary of the
\* index has a non-empty ID, and GetAgent of that ID returns a record with
\* the Summary's Name and Price, also for entities passed with an empty ID.
C34_IndexedEntitiesAreStored ==
    (call.pc = "returned" /\ call.err = "nil")
        => /\ ReadIndex(indexFile).err = "nil"
           /\ \A i \in 1..Len(ReadIndex(indexFile).index.Agents) :
                LET sum == ReadIndex(indexFile).index.Agents[i] IN
                /\ sum.ID # ""
                /\ GetAgent(sum.ID).err = "nil"
                /\ GetAgent(sum.ID).agent.Name = sum.Name
                /\ GetAgent(sum.ID).agent.Price = sum.Price

----------------------------------------------------------------------------
(* Claims about UpdateIndex and GetIndex, under SpecIndex *)

\* C8: after an UpdateIndex that succeeded, GetIndex returns one Summary per
\* input entity, the i-th with the i-th entity's ID, Name and Price, and
\* nothing else.
C8_RebuildThenGetIndex ==
    (writer.pc = "returned" /\ writer.err = "nil")
        => /\ GetIndex.err = "nil"
           /\ Len(GetIndex.index.Agents) = Len(writer.agents)
           /\ \A i \in 1..Len(writer.agents) :
                /\ GetIndex.index.Agents[i].ID = writer.agents[i].ID
                /\ GetIndex.index.Agents[i].Name = writer.agents[i].Name
                /\ GetIndex.index.Agents[i].Price = writer.agents[i].Price

C8_Witness ==
    /\ writer.pc = "returned" /\ writer.err = "nil"
    /\ writer.prev.err = "nil"
    /\ Len(writer.prev.index.Agents) = 2
    /\ Len(writer.agents) = 2
    /\ writer.agents[1].ID = writer.agents[2].ID
    /\ writer.prev.index.Agents[1].ID # writer.agents[1].ID

\* C9: however one UpdateIndex and the GetIndex calls interleave, a GetIndex
\* never reads the file while the UpdateIndex is between its lock and its
\* unlock, and what it returns is the complete index of before the rebuild
\* or the complete new one, never a partially written one.
C9_GetIndexSeesOldOrNewIndex ==
    \A r \in Readers :
        /\ readers[r].pc \in {"read", "unlock"} => writer.pc \in {"idle", "returned"}
        /\ ~readers[r].inFlight
        /\ (readers[r].pc = "unlock" /\ writer.pc = "returned")
              => \/ readers[r].res = writer.prev
                 \/ readers[r].res = [err |-> "nil", index |-> UnmarshalIndex(writer.data)]

C10_FailedRebuildKeepsIndex ==
    (writer.pc = "returned" /\ writer.err # "nil" /\ writer.prev.err = "nil")
        => GetIndex = writer.prev

----------------------------------------------------------------------------
(* Claims about the sweeps, under Spec *)

Running == {s \in Slots : sweeps[s].pc # "idle"}

\* C3: at most one sweep (ScrapeAgents) is running at any time.
C3_OneSweepAtATime == Cardinality(Running) <= 1

RangeSize == MaxAgentID - startAgentID + 1

\* The index a reader is given: its summaries, none when there is no index.
IndexSummaries(file) ==
    IF ReadIndex(file).err = "nil" THEN ReadIndex(file).index.Agents ELSE <<>>

SummaryOfScan(id) ==
    [ID |-> Sha256Hex8(AgentNames[id] \o "-" \o "1"),
     Name |-> AgentNames[id], Price |-> "1"]

ScansOutside(F) ==
    SelectSeq([i \in 1..RangeSize |-> startAgentID + i - 1], LAMBDA id : id \notin F)

\* Sweep s returns in this step, its index rebuild (if any) having succeeded.
Finishes(s) ==
    /\ sweeps[s].pc = "loop"
    /\ sweeps[s].id > MaxAgentID
    /\ sweeps'[s].pc = "idle"
    /\ \/ sweeps[s].agents = <<>>
       \/ indexFile' = JsonFile(MarshalIndex(BuildIndex(sweeps[s].agents)))

\* C4: a sweep that started with an empty throttle cache, in which the
\* fetches of the ids in F failed and every other id was fetched and
\* extracted, ends with one Summary per id outside F in the index, in scan
\* order, |F| failures and (range size - |F|) successes.
C4_SweepIndexAndCounts ==
    [][\A s \in Slots :
        (Finishes(s) /\ sweeps[s].startedEmpty /\ sweeps[s].parseFailed = {})
            => /\ sweeps[s].errorCount = Cardinality(sweeps[s].fetchFailed)
               /\ sweeps[s].successCount = RangeSize - Cardinality(sweeps[s].fetchFailed)
               /\ IndexSummaries(indexFile') =
                    [i \in 1..Len(ScansOutside(sweeps[s].fetchFailed)) |->
                        SummaryOfScan(ScansOutside(sweeps[s].fetchFailed)[i])]
      ]_vars

\* C5: every entity a sweep puts in the index has been saved: GetAgent
\* succeeds for every Summary ID of the index.
C5_IndexedEntitiesAreStored ==
    \A i \in 1..Len(IndexSummaries(indexFile)) :
        GetAgent(IndexSummaries(indexFile)[i].ID).err = "nil"

InSeq(x, q) == \E i \in 1..Len(q) : q[i] = x

ScanOfName(name) == CHOOSE id \in 1..Len(AgentNames) : AgentNames[id] = name

\* C6: an entity of the index is still in the index after a sweep that
\* skipped its scan id (throttled) and rebuilt the index from other ids.
C6_SkippedEntityStaysIndexed ==
    [][\A s \in Slots :
        (Finishes(s) /\ sweeps[s].agents # <<>>)
            => \A i \in 1..Len(IndexSummaries(indexFile)) :
                 ScanOfName(IndexSummaries(indexFile)[i].Name) \in sweeps[s].skipped
                    => InSeq(IndexSummaries(indexFile)[i], IndexSummaries(indexFile'))
      ]_vars

\* The pages in which no name selector yields text.
NamelessPages == {page \in UNION {WebPages(id) : id \in ScanIDs} : page.name = ""}

\* C14: parseAgentPage returns an error and no entity when no name selector
\* yields text, even if a price or a description was extracted; the sweep
\* then counts the id as failed, does not mark it fetched and adds nothing
\* to its list.
C14_NamelessPageFailsTheID ==
    /\ [](\A page \in NamelessPages :
            /\ ParseAgentPage(page).err # "nil"
            /\ "agent" \notin DOMAIN ParseAgentPage(page))
    /\ [][\A s \in Slots :
            (sweeps[s].pc = "fetch" /\ sweeps[s].id \in sweeps'[s].parseFailed)
                => /\ sweeps'[s].errorCount = sweeps[s].errorCount + 1
                   /\ sweeps'[s].successCount = sweeps[s].successCount
                   /\ sweeps'[s].agents = sweeps[s].agents
                   /\ fetchCache' = fetchCache
          ]_vars

C14_Witness ==
    \E s \in Slots :
        /\ sweeps[s].parseFailed # {}
        /\ sweeps[s].errorCount = Cardinality(sweeps[s].parseFailed)
        /\ \E id \in sweeps[s].parseFailed : id \notin DOMAIN fetchCache
        /\ \E page \in NamelessPages : page.price # "" /\ page.description # <<>>

\* A call of StopScheduler returns in this step (a repeated call on a
\* scheduler that is not running leaves every variable as it is).
Stops ==
    /\ call'.op = "StopScheduler"
    /\ call' # call \/ scheduler' # scheduler

C17_StopSchedulerIsSafe ==
    /\ [](scheduler # "panic")
    /\ [](scheduler \in {"nil", "new", "stopped"} => StopSchedulerOn(scheduler) = scheduler)
    /\ [][Stops
            => /\ scheduler \in {"nil", "new", "stopped"} => scheduler' = scheduler
               /\ sweeps' = sweeps
               /\ agentFiles' = agentFiles
               /\ indexFile' = indexFile
               /\ fetchCache' = fetchCache]_vars

C17_Witness ==
    /\ call.op = "StopScheduler"
    /\ scheduler = "new"
    /\ \A s \in Slots : sweeps[s].pc = "idle"
    /\ clock > 0

\* C20: a sweep that ends with an empty list does not rebuild the index:
\* the index file, its LastUpdated included, is as it was.
C20_EmptySweepLeavesIndex ==
    [][\A s \in Slots :
        (/\ sweeps[s].pc = "loop"
         /\ sweeps[s].id > MaxAgentID
         /\ sweeps'[s].pc = "idle"
         /\ sweeps[s].agents = <<>>)
            => indexFile' = indexFile
      ]_vars

C20_Witness ==
    \E s \in Slots :
        /\ sweeps[s].pc = "loop"
        /\ sweeps[s].id > MaxAgentID
        /\ sweeps[s].agents = <<>>
        /\ sweeps[s].fetchFailed # {}
        /\ GetIndex.err = "nil"
        /\ GetIndex.index.LastUpdated.t # clock
        /\ GetIndex.index.Agents # <<>>

\* The scan ids whose entity a sweep has put in its list.
Succeeded(w) == {ScanOfName(w.agents[i].Name) : i \in 1..Len(w.agents)}

\* The scan ids a sweep has called FetchHTML for, and returned from it.
Attempted(w) == w.fetchFailed \cup w.parseFailed \cup Succeeded(w)

\* The scan ids a sweep has gone through: skipped, failed or succeeded.
Visited(w) == w.skipped \cup Attempted(w)

\* C21: a sweep visits every scan id of [startAgentID, MaxAgentID] exactly
\* once, in ascending order, one at a time; a fetch error or an extraction
\* error on an id does not end the sweep: it returns only after the last id.
C21_SweepVisitsEachIDOnce ==
    /\ [](\A s \in Slots :
            sweeps[s].pc # "idle"
                => /\ sweeps[s].id \in startAgentID..(MaxAgentID + 1)
                   /\ sweeps[s].pc = "fetch" => sweeps[s].id <= MaxAgentID
                   /\ Visited(sweeps[s]) = startAgentID..(sweeps[s].id - 1)
                   /\ Cardinality(sweeps[s].skipped) + Cardinality(sweeps[s].fetchFailed)
                        + Cardinality(sweeps[s].parseFailed) + Len(sweeps[s].agents)
                        = sweeps[s].id - startAgentID
                   /\ \A i, j \in 1..Len(sweeps[s].agents) :
                        i < j => ScanOfName(sweeps[s].agents[i].Name)
                                    < ScanOfName(sweeps[s].agents[j].Name))
    /\ [][\A s \in Slots :
            /\ sweeps[s].pc = "fetch"
                  => /\ sweeps'[s].pc \in {"fetch", "loop"}
                     /\ sweeps'[s].id \in {sweeps[s].id, sweeps[s].id + 1}
            /\ sweeps[s].pc = "loop" /\ sweeps[s].id <= MaxAgentID
                  => /\ sweeps'[s].pc \in {"fetch", "loop"}
                     /\ sweeps'[s].id \in {sweeps[s].id, sweeps[s].id + 1}
            /\ sweeps[s].pc # "idle" /\ sweeps'[s].pc = "idle"
                  => Visited(sweeps[s]) = ScanIDs
          ]_vars

C21_Witness ==
    \E s \in Slots :
        /\ sweeps[s].pc = "loop"
        /\ sweeps[s].id > MaxAgentID
        /\ startAgentID \in sweeps[s].fetchFailed \cup sweeps[s].parseFailed
        /\ MaxAgentID \in Succeeded(sweeps[s])

\* Sweep s has scan ids left to process.
Iterating(s) == sweeps[s].pc # "idle" /\ sweeps[s].id <= MaxAgentID

\* C29: a sweep calls UpdateIndex at most once, after the last scan id of
\* the range; while a sweep is iterating over the range the index is not
\* modified: a reader finds the index of before the sweep during the whole
\* scan.
C29_IndexUnchangedDuringScan ==
    /\ [][\A s \in Slots : Iterating(s) => indexFile' = indexFile]_vars
    /\ [][indexFile' # indexFile
            => \E s \in Slots :
                  /\ sweeps[s].pc = "loop"
                  /\ sweeps[s].id > MaxAgentID
                  /\ sweeps'[s].pc = "idle"]_vars

\* C37: in the summary at the end of a sweep the attempted count is the
\* succeeded count plus the failed count, the number of scan ids FetchHTML
\* was called for (the ids the throttle skipped are not in it), and the
\* succeeded count is the length of the list of entities.
C37_SummaryCountsAddUp ==
    \A s \in Slots :
        (sweeps[s].pc = "loop" /\ sweeps[s].id > MaxAgentID)
            => /\ SweepSummary(sweeps[s]).attempts
                    = SweepSummary(sweeps[s]).successful + SweepSummary(sweeps[s]).failed
               /\ SweepSummary(sweeps[s]).attempts = Cardinality(Attempted(sweeps[s]))
               /\ SweepSummary(sweeps[s]).successful = Len(sweeps[s].agents)

\* C22: two FetchHTML attempts for the same scan id are at least 24 hours
\* apart, also when the earlier one failed: when an attempt has returned,
\* ShouldFetch refuses the id, so that the next tick cannot fetch it again;
\* and no sweep starts an attempt for an id that another sweep is fetching
\* or has fetched in the same hour.
C22_AttemptsAreAWindowApart ==
    [][\A s \in Slots :
        /\ (sweeps[s].pc = "fetch" /\ sweeps'[s].pc = "loop")
              => ~ShouldFetch(sweeps[s].id)'
        /\ (sweeps[s].pc = "loop" /\ sweeps'[s].pc = "fetch")
              => \A q \in Slots \ {s} :
                    /\ ~(sweeps[q].pc = "fetch" /\ sweeps[q].id = sweeps[s].id)
                    /\ sweeps[s].id \notin Attempted(sweeps[q])
      ]_vars

----------------------------------------------------------------------------
(* Claims about the throttle cache, under SpecThrottle *)

\* C7: ShouldFetch(id) is true before any MarkFetched(id), false from a
\* MarkFetched(id) until more than 24 hours have passed since the latest
\* one, true after that; MarkFetched of another id does not change it.
C7_ThrottleWindow ==
    \A id \in ScanIDs :
        ShouldFetch(id) <=> (id \notin DOMAIN marked \/ clock - marked[id] > 24)

C7_Witness ==
    \E id, other \in ScanIDs :
        /\ id # other
        /\ id \in DOMAIN marked /\ clock - marked[id] = 25 /\ ShouldFetch(id)
        /\ other \in DOMAIN marked /\ clock - marked[other] = 24 /\ ~ShouldFetch(other)

----------------------------------------------------------------------------
(* Claims about models.Agent, under SpecAgent *)

\* C12: GenerateID changes no field but ID, and the ID it sets is the same
\* for every entity with the same Name and the same Price, whatever its
\* other fields hold.
C12_GenerateIDIsPure ==
    call.op = "GenerateID"
        => /\ call.agent = [call.arg EXCEPT !.ID = call.agent.ID]
           /\ \A b \in AgentInputs :
                (b.Name = call.arg.Name /\ b.Price = call.arg.Price)
                    => GenerateID(b).ID = call.agent.ID

C12_Witness ==
    /\ call.op = "GenerateID"
    /\ call.arg.ID = "old" /\ call.agent.ID # "old"
    /\ call.arg.Stats # "" /\ call.arg.Description # <<>>
    /\ call.arg.UpdateCount = 1 /\ call.arg.Status = StatusActive
    /\ call.arg.TokenData # ZeroTokenData
    /\ call.arg.LastChecked # ZeroTime

\* C13: UpdateStatus sets Status by the first rule that matches, in this
\* order: dead if Price and Description are empty; default if UpdateCount
\* is 0; latent if Description contains "inactive" or "discontinued" in any
\* letter case; active otherwise.
C13_StatusRuleOrder ==
    call.op = "UpdateStatus"
        => call.agent.Status =
             IF call.arg.Price = "" /\ call.arg.Description = <<>> THEN "dead"
             ELSE IF call.arg.UpdateCount = 0 THEN "default"
             ELSE IF call.arg.Description \in LatentDescriptions THEN "latent"
             ELSE "active"

C13_Witness ==
    /\ call.op = "UpdateStatus"
    /\ call.arg.Price = "" /\ call.arg.Description = <<>>
    /\ call.arg.UpdateCount = 0
    /\ call.agent.Status = "dead"

----------------------------------------------------------------------------
(* Claims about FetchHTML, under SpecFetch *)

\* C15: FetchHTML returns a document and no error, or an error and no
\* document; when the automation fails or the 55 s timer fires first it
\* returns an error and nil and has written no debug file; a document it
\* returns is the whole page.
C15_FetchDocumentOrError ==
    call.pc = "returned"
        => /\ (call.err = "nil") <=> (call.doc # <<>>)
           /\ call.err = "nil" => call.doc = <<call.page>>
           /\ call.err \in {"automation", "timeout"} => ~call.debug

C15_Witness ==
    /\ call.pc = "returned"
    /\ call.err = "timeout"
    /\ call.doc = <<>>
    /\ call.htmlContent # <<>>
    /\ ~call.debug

Contexts(c) == {c.allocCtx, c.browserCtx, c.timeoutCtx}

\* C30: every FetchHTML call returns in the end, with success, automation
\* failure or timeout, also when the automation never completes; when it
\* has returned its allocator, browser and timeout contexts are cancelled,
\* and the next call starts with contexts and variables of its own.
C30_FetchReturnsAndCancels ==
    /\ (call.pc = "select") ~> (call.pc = "returned")
    /\ [](call.pc = "returned"
            => /\ call.err \in {"nil", "automation", "timeout"}
               /\ Contexts(call) = {"cancelled"})
    /\ [](call.pc \in {"select", "save"} => Contexts(call) = {"live"})
    /\ [][(call.pc = "returned" /\ call'.pc = "select")
            => /\ call'.htmlContent = <<>>
               /\ ~call'.debugScreenshot /\ ~call'.pageTitle
               /\ ~call'.errChan /\ ~call'.doneChan /\ ~call'.timer]_vars

C30_Witness ==
    /\ call.pc = "returned"
    /\ call.err = "timeout"
    /\ call.goroutine = "running"
    /\ ~call.debugScreenshot
    /\ Contexts(call) = {"cancelled"}

\* The goroutine of the call is at its send.
Sending == call.goroutine \in {"sendDone", "sendErr"}

\* C39: the goroutine FetchHTML started is never stuck at the send of its
\* result: whether it sends on doneChan or on errChan, and whether FetchHTML
\* is in the select or has returned, the send can go through, and the
\* goroutine is over after it (a goroutine that is "running" again is that
\* of a later call).
C39_GoroutineSendCompletes ==
    /\ [](Sending => ENABLED GoroutineSend)
    /\ Sending ~> (call.goroutine \in {"exited", "running"})
    /\ [][(Sending /\ call'.goroutine # call.goroutine /\ call'.pc = call.pc)
            => call'.goroutine = "exited"]_vars

\* FetchHTML returned on its timeout, and the goroutine has sent after that.
C39_Witness ==
    /\ call.pc = "returned"
    /\ call.err = "timeout"
    /\ call.goroutine = "exited"
    /\ call.doneChan \/ call.errChan

----------------------------------------------------------------------------
(* Claims about extractTextBySelector and parseAgentPage, under SpecExtract *)

\* The texts without the white space around them.
Trimmed(t) ==
    IF t = <<" ", "a">> THEN <<"a">>
    ELSE IF t = <<"b", " ">> THEN <<"b">>
    ELSE <<>>

\* The k-th selector of a field matches an element with text.
Yields(doc, field, k) ==
    \E i \in 1..Len(Find(doc, field, k)) : Find(doc, field, k)[i] # <<" ">>

\* C27: for each field the text extracted is the trimmed text of the first
\* element with text of the first selector, in the order of the field's
\* list, that matches such an element; a selector further down the list is
\* used only when no selector before it yields text; a field for which no
\* selector yields text is the empty string.
C27_FirstSelectorWithTextWins ==
    call.op = "extractTextBySelector"
        => \A f \in Fields :
             IF \A k \in 1..Len(Selectors[f]) : ~Yields(call.doc, f, k)
             THEN /\ f \notin DOMAIN call.extracted
                  /\ Extracted(call.extracted, f) = <<>>
             ELSE \E k \in 1..Len(Selectors[f]) :
                    /\ Yields(call.doc, f, k)
                    /\ \A h \in 1..(k - 1) : ~Yields(call.doc, f, h)
                    /\ \E i \in 1..Len(Find(call.doc, f, k)) :
                          /\ Find(call.doc, f, k)[i] # <<" ">>
                          /\ \A j \in 1..(i - 1) : Find(call.doc, f, k)[j] = <<" ">>
                          /\ Extracted(call.extracted, f)
                                = Trimmed(Find(call.doc, f, k)[i])

C27_Witness ==
    /\ call.op = "extractTextBySelector"
    /\ Find(call.doc, "name", 1) = <<>>
    /\ Find(call.doc, "name", 2) = << <<" ">>, <<" ", "a">> >>
    /\ Find(call.doc, "name", 3) = << <<"b", " ">>, <<" ", "a">> >>
    /\ call.extracted["name"] = <<"a">>
    /\ call.extracted["price"] = <<"a">>
    /\ call.extracted["description"] = <<"b">>

\* C28: an entity returned by a parseAgentPage that succeeded has a Name
\* that is not empty, ParseSuccess = true and the content ID of its Name and
\* Price; its Price and its Description may be empty.
C28_ParsedEntityIsIdentified ==
    (call.op = "parseAgentPage" /\ call.parsed.err = "nil")
        => /\ call.parsed.agent.Name # ""
           /\ call.parsed.agent.Name = StringOf(Extracted(call.extracted, "name"))
           /\ call.parsed.agent.Price = StringOf(Extracted(call.extracted, "price"))
           /\ call.parsed.agent.ParseSuccess
           /\ call.parsed.agent.ID
                = Sha256Hex8(call.parsed.agent.Name \o "-" \o call.parsed.agent.Price)

C28_Witness ==
    /\ call.op = "parseAgentPage" /\ call.parsed.err = "nil"
    /\ call.parsed.agent.Name = "b"
    /\ call.parsed.agent.Price = ""
    /\ call.parsed.agent.Description = <<>>
    /\ call.parsed.agent.ID = "#b-"

----------------------------------------------------------------------------
(* Claims on SpecSweep and SpecSweepLive.                                  *)

\* Slot 1 runs ScrapeAgents.
Sweeping == sweeps[1].pc # "idle"

\* C31: when UpdateIndex fails at the end of a sweep, ScrapeAgents returns
\* no error, the scheduler is left as it was and starts a sweep on its next
\* tick, and the throttle marks the sweep made are kept.
C31_IndexFailureIsAbsorbed ==
    /\ [][(Sweeping /\ ~Sweeping' /\ call'.indexErr = "write")
            => /\ call'.err = "nil"
               /\ scheduler' = scheduler
               /\ fetchCache' = fetchCache
               /\ marked' = marked
               /\ \A id \in Succeeded(sweeps[1]) :
                     id \in DOMAIN fetchCache' /\ ~ShouldFetch(id)'
         ]_vars
    /\ []((~Sweeping /\ call.indexErr = "write")
            => SchedulerRuns(scheduler) /\ ENABLED OneTick)

\* A sweep that marked ids has returned after its index rebuild failed.
C31_Witness ==
    /\ ~Sweeping
    /\ call.indexErr = "write"
    /\ call.err = "nil"
    /\ DOMAIN fetchCache # {}

\* C38: a started sweep finishes whatever each id gives (skip, fetch error,
\* extraction error, success) and whether or not the log file could be
\* opened, and the scheduler slot is idle again; a running sweep returns
\* only after the last id and without error; the only error ScrapeAgents
\* returns is that of the raw data directory, before anything is fetched or
\* written.
C38_EverySweepReturns ==
    /\ \A log \in LogOutcomes :
          (Sweeping /\ call.log = log)
              ~> (~Sweeping /\ call.log = log /\ call.err = "nil")
    /\ [][(Sweeping /\ ~Sweeping')
            => /\ Visited(sweeps[1]) = ScanIDs
               /\ call'.err = "nil"
         ]_vars
    /\ [][(call' # call /\ call'.err \notin {"none", "nil"})
            => /\ call'.err = "mkdir"
               /\ ~Sweeping
               /\ ~Sweeping'
               /\ UNCHANGED <<fetchCache, agentFiles, indexFile, marked>>
         ]_vars

\* A sweep without log file returned after a failure and a success.
C38_Witness ==
    /\ ~Sweeping
    /\ call.log = "open"
    /\ call.err = "nil"
    /\ call.summary.failed > 0
    /\ call.summary.successful > 0

----------------------------------------------------------------------------
(* Claims on SpecRecord.                                                   *)

\* C33: a GetAgent that reads a record while a SaveAgent of the same ID is
\* writing it, over a record that could be read before, returns without
\* error the complete record of before or the complete new one.
C33_ConcurrentReadSeesOldOrNew ==
    \A r \in Readers :
        (readers[r].pc = "returned" /\ readers[r].inFlight)
            => /\ readers[r].res.err = "nil"
               /\ readers[r].res \in {readers[r].old, readers[r].new}

----------------------------------------------------------------------------
(* Claims on SpecPair.                                                     *)

\* C40: two entities that differ in Name or in Price have different texts
\* hashed by GenerateID, and so different IDs and different record files.
C40_PreHashIsInjective ==
    (/\ call.x.ID # "" /\ call.y.ID # ""
     /\ <<call.x.Name, call.x.Price>> # <<call.y.Name, call.y.Price>>)
        => /\ PreHash(call.x) # PreHash(call.y)
           /\ call.x.ID # call.y.ID
           /\ FilePath(call.x) # FilePath(call.y)

====
